---- MODULE Spec2Model ----
(***************************************************************************)
(* A model of the PowerSchool request builder (src/src/PowerSchool.ts).   *)
(*                                                                         *)
(* JavaScript strings that the code takes apart (endpoints, query         *)
(* strings) are sequences of tokens: "/" is a token of its own and every  *)
(* path segment is one atomic token, so '/ws/schema/table/T' is           *)
(* <<"/","ws","/","schema","/","table","/","T">>.  Two segments are never *)
(* adjacent.  Atomic strings (method, table, pageKey, token) are TLA+     *)
(* strings; the JavaScript value undefined is the string "undefined",     *)
(* which is also what a template literal turns it into.  No input of the  *)
(* model is the string 'undefined' itself.                                *)
(***************************************************************************)
EXTENDS Integers, Sequences, FiniteSets, TLC

VARIABLES requestConfig, token, inflight, last, call, pc

vars == <<requestConfig, token, inflight, last, call, pc>>

-----------------------------------------------------------------------------
(* Bounds *)

\* record ids offered to setId and getDataSubscriptionChanges are 0..MaxId
MaxId == 1
\* an operation that lengthens the endpoint is offered while it is shorter
MaxEndpointLen == 10
\* calls that may be awaiting the transport at the same time
MaxInflight == 2
\* the strings given to sanitizeEndpoint alone have up to this many tokens
MaxStringLen == 5
\* the arrays given to castValueToString have up to this many elements
MaxArrayLen == 3
\* the mappings given to castValuesToString nest up to this deep
MaxDepth == 1
\* the bodies wrapped in a PowerSchoolResponse have up to this many keys
MaxKeys == 3

-----------------------------------------------------------------------------
(* JavaScript values *)

Undefined == "undefined"
NaN == 0 - 2
NoId == 0 - 1
Digits == <<"0", "1", "2", "3", "4", "5", "6", "7", "8", "9">>

\* `${n}` for a small non-negative integer
NumberToString(n) == Digits[n + 1]

\* Number(s) for one path segment: '' is 0, a numeral its value, else NaN
Number(s) ==
  IF s = "" THEN 0
  ELSE IF \E n \in 0..9 : Digits[n + 1] = s
       THEN CHOOSE n \in 0..9 : Digits[n + 1] = s
       ELSE NaN

isNaN(n) == n = NaN

\* truthiness of requestConfig.id: undefined, NaN and 0 are falsy
Truthy(n) == n # NoId /\ n # NaN /\ n # 0

EmptyObject == [k \in {} |-> <<>>]

\* {...a, ...b}
Spread(a, b) ==
  [k \in DOMAIN a \cup DOMAIN b |-> IF k \in DOMAIN b THEN b[k] ELSE a[k]]

\* obj[key] = value
Assign(obj, key, value) == Spread(obj, [k \in {key} |-> value])

ToLowerCase(m) ==
  CASE m \in {"GET", "Get"} -> "get"
    [] m = "POST" -> "post"
    [] m = "PUT" -> "put"
    [] m = "PATCH" -> "patch"
    [] m = "DELETE" -> "delete"
    [] OTHER -> m

RECURSIVE Join(_, _)
Join(elems, sep) ==
  IF elems = <<>> THEN <<>>
  ELSE IF Len(elems) = 1 THEN <<elems[1]>>
  ELSE <<elems[1], sep>> \o Join(Tail(elems), sep)

StartsWith(s, p) == Len(s) >= Len(p) /\ SubSeq(s, 1, Len(p)) = p

EndsWith(s, c) == Len(s) > 0 /\ s[Len(s)] = c

Includes(s, p) ==
  \E i \in 1..(Len(s) - Len(p) + 1) : SubSeq(s, i, i + Len(p) - 1) = p

\* s.split('/'): the segments, '' where two slashes meet or at either end
RECURSIVE Split(_)
Split(s) ==
  IF s = <<>> THEN <<"">>
  ELSE IF s[1] = "/" THEN <<"">> \o Split(Tail(s))
  ELSE IF Len(s) = 1 THEN <<s[1]>>
  ELSE <<s[1]>> \o Split(SubSeq(s, 3, Len(s)))

\* s.replace(/\/{2,}/g, '/')
RECURSIVE CollapseSlashes(_)
CollapseSlashes(s) ==
  IF Len(s) < 2 THEN s
  ELSE IF s[1] = "/" /\ s[2] = "/" THEN CollapseSlashes(Tail(s))
  ELSE <<s[1]>> \o CollapseSlashes(Tail(s))

-----------------------------------------------------------------------------
(* PowerSchoolRequestConfig *)

\* endpoint is undefined until set; in a concatenation (endpoint + '/x') the
\* undefined value reads 'undefined', the token it is made of here
NoEndpoint == <<Undefined>>

PowerSchoolRequestConfig ==
  [endpoint |-> NoEndpoint,
   method |-> "get",
   table |-> Undefined,
   data |-> EmptyObject,
   params |-> EmptyObject,
   id |-> NoId,
   includeProjection |-> FALSE,
   pageKey |-> Undefined]

-----------------------------------------------------------------------------
(* Pure helpers of the class *)

\* sanitizeEndpoint with the trailing slash stripped before the collapse
sanitizeEndpointStripFirst(endpoint) ==
  CollapseSlashes(IF EndsWith(endpoint, "/")
                  THEN SubSeq(endpoint, 1, Len(endpoint) - 1)
                  ELSE endpoint)

\* sanitizeEndpoint without the strip of the trailing slash
sanitizeEndpointKeepTrailing(endpoint) == CollapseSlashes(endpoint)

sanitizeEndpoint(endpoint) ==
  LET sanitized == CollapseSlashes(endpoint)
  IN IF EndsWith(sanitized, "/")
     THEN SubSeq(sanitized, 1, Len(sanitized) - 1)
     ELSE sanitized

\* castValueToString without the branch for booleans
castValueToStringNoBoolean(value) ==
  CASE value[1] \in {"null", "undefined"} -> <<"string">>
    [] value[1] = "array" -> <<"string">> \o Join(Tail(value), ",")
    [] OTHER -> <<"string">> \o Tail(value)

castValueToString(value) ==
  CASE value[1] = "boolean" ->
         IF value[2] = "true" THEN <<"string", "1">> ELSE <<"string", "0">>
    [] value[1] \in {"null", "undefined"} -> <<"string">>
    [] value[1] = "array" -> <<"string">> \o Join(Tail(value), ",")
    [] value[1] = "object" -> <<"string", "[object Object]">>
    [] OTHER -> <<"string">> \o Tail(value)

\* typeof value: a mapping is <<"object", m>> with m the function from its
\* keys to its values
typeof(value) ==
  CASE value[1] \in {"object", "null", "array"} -> "object"
    [] value[1] = "boolean" -> "boolean"
    [] value[1] = "undefined" -> "undefined"
    [] value[1] = "number" -> "number"
    [] OTHER -> "string"

ArrayIsArray(value) == value[1] = "array"

\* the keys and values a for-in loop over data visits: none for null
ForIn(data) == IF data[1] = "object" THEN data[2] ELSE EmptyObject

RECURSIVE castValuesToString(_)
castValuesToString(data) ==
  [key \in DOMAIN ForIn(data) |->
     LET value == ForIn(data)[key]
     IN IF typeof(value) = "object" /\ ~ArrayIsArray(value)
        THEN <<"object", castValuesToString(value)>>
        ELSE castValueToString(value)]

\* qs.parse of 'k=v&k=v' with distinct keys and one-token values
RECURSIVE qsParse(_)
qsParse(str) ==
  IF Len(str) < 3 THEN EmptyObject
  ELSE Spread([k \in {str[1]} |-> <<"string", str[3]>>],
              qsParse(SubSeq(str, 5, Len(str))))

-----------------------------------------------------------------------------
(* Fluent functions, as functions of the request config *)

\* excludeProjection that leaves the flag as it is
excludeProjectionKeepFlag(rc) == rc

excludeProjection(rc) == [rc EXCEPT !.includeProjection = FALSE]

includeProjection(rc) == [rc EXCEPT !.includeProjection = TRUE]

setEndpoint(rc, endpoint) ==
  LET sanitized == sanitizeEndpoint(endpoint)
      all == Split(endpoint)
      tail == all[Len(all)]
      parts == SubSeq(all, 1, Len(all) - 1)
      id == IF ~isNaN(Number(tail)) THEN Number(tail) ELSE rc.id
      rc1 == [rc EXCEPT !.endpoint = sanitized, !.id = id]
  IN IF Includes(sanitized, <<"/", "table", "/">>)
     THEN includeProjection(
            [rc1 EXCEPT !.table =
               IF Truthy(id)
               THEN IF Len(parts) - 1 >= 1 THEN parts[Len(parts) - 1]
                    ELSE Undefined
               ELSE tail])
     ELSE excludeProjection(rc1)

TablePrefix == <<"/", "ws", "/", "schema", "/", "table">>

\* setTable that starts from a new request config
setTableFromDefault(rc, table) ==
  LET endpoint == IF StartsWith(table, TablePrefix)
                  THEN table
                  ELSE TablePrefix \o <<"/">> \o table
  IN includeProjection(
       setEndpoint([PowerSchoolRequestConfig EXCEPT !.pageKey = "record"],
                   endpoint))

setTable(rc, table) ==
  LET endpoint == IF StartsWith(table, TablePrefix)
                  THEN table
                  ELSE TablePrefix \o <<"/">> \o table
  IN includeProjection(setEndpoint([rc EXCEPT !.pageKey = "record"], endpoint))

\* setId that appends the id without deriving the fields again
setIdAppendOnly(rc, id) ==
  [rc EXCEPT !.id = id,
             !.endpoint = rc.endpoint \o <<"/", NumberToString(id)>>]

setId(rc, id) ==
  setEndpoint([rc EXCEPT !.id = id],
              rc.endpoint \o <<"/", NumberToString(id)>>)

setData(rc, data) == [rc EXCEPT !.data = data]

\* withQueryParams that adds to the params already set
withQueryParamsMerging(rc, queryParams) ==
  [rc EXCEPT !.params = Spread(rc.params,
                               IF queryParams.type = "string"
                               THEN qsParse(queryParams.value)
                               ELSE queryParams.value)]

withQueryParams(rc, queryParams) ==
  [rc EXCEPT !.params = IF queryParams.type = "string"
                        THEN qsParse(queryParams.value)
                        ELSE queryParams.value]

addQueryParam(rc, key, value) ==
  [rc EXCEPT !.params = Assign(rc.params, key, value)]

\* setDataItem that stores the value as it was given
setDataItemAsGiven(rc, key, value) ==
  [rc EXCEPT !.data = Assign(rc.data, key, value)]

setDataItem(rc, key, value) ==
  [rc EXCEPT !.data = Assign(rc.data, key, castValueToString(value))]

setMethod(rc, method) == [rc EXCEPT !.method = method]

QueryPrefix == <<"/", "ws", "/", "schema", "/", "query">>

\* setNamedQuery that sets the body whether or not it has entries
setNamedQuerySetsBody(rc, name, data) ==
  LET endpoint == IF StartsWith(name, QueryPrefix)
                  THEN name
                  ELSE QueryPrefix \o <<"/">> \o name
      rc1 == [setEndpoint(rc, CollapseSlashes(endpoint))
                EXCEPT !.pageKey = "record"]
  IN setMethod(setData(rc1, data), "post")

\* setNamedQuery that leaves the pending method as it is
setNamedQueryKeepMethod(rc, name, data) ==
  LET endpoint == IF StartsWith(name, QueryPrefix)
                  THEN name
                  ELSE QueryPrefix \o <<"/">> \o name
      rc1 == [setEndpoint(rc, CollapseSlashes(endpoint))
                EXCEPT !.pageKey = "record"]
  IN IF DOMAIN data # {} THEN setData(rc1, data) ELSE rc1

setNamedQuery(rc, name, data) ==
  LET endpoint == IF StartsWith(name, QueryPrefix)
                  THEN name
                  ELSE QueryPrefix \o <<"/">> \o name
      rc1 == [setEndpoint(rc, CollapseSlashes(endpoint))
                EXCEPT !.pageKey = "record"]
      rc2 == IF DOMAIN data # {} THEN setData(rc1, data) ELSE rc1
  IN setMethod(rc2, "post")

projection(rc, p) == addQueryParam(rc, "projection", castValueToString(p))

page(rc, p) == addQueryParam(rc, "page", p)

pageSize(rc, size) == addQueryParam(rc, "pagesize", size)

\* sort whose sortdescending is the boolean cast as body values are
sortDescendingCast(rc, columns, descending) ==
  addQueryParam(addQueryParam(rc, "sort", castValueToString(columns)),
                "sortdescending",
                castValueToString(<<"boolean",
                                    IF descending THEN "true" ELSE "false">>))

sort(rc, columns, descending) ==
  addQueryParam(addQueryParam(rc, "sort", castValueToString(columns)),
                "sortdescending",
                <<"string", IF descending THEN "true" ELSE "false">>)

adHocOrder(rc, expression) == addQueryParam(rc, "order", expression)

includeCount(rc) == addQueryParam(rc, "count", <<"string", "true">>)

expansions(rc, e) == addQueryParam(rc, "expansions", castValueToString(e))

extensions(rc, e) == addQueryParam(rc, "extensions", castValueToString(e))

dataVersion(rc, version, applicationName) ==
  setDataItem(setDataItem(rc, "$dataversion", version),
              "$dataversion_applicationname", applicationName)

-----------------------------------------------------------------------------
(* Building the request *)

\* buildParams with the body spread after the explicit params
buildParamsBodyLast(rc) ==
  Spread(Spread(IF rc.includeProjection
                THEN [k \in {"projection"} |-> <<"string", "*">>]
                ELSE EmptyObject,
                rc.params),
         IF ToLowerCase(rc.method) = "get" THEN rc.data ELSE EmptyObject)

buildParams(rc) ==
  Spread(Spread(IF rc.includeProjection
                THEN [k \in {"projection"} |-> <<"string", "*">>]
                ELSE EmptyObject,
                IF ToLowerCase(rc.method) = "get" THEN rc.data ELSE EmptyObject),
         rc.params)

tokenSet(t) == t # Undefined /\ t # ""

\* getAxiosRequestConfig throws a TypeError when no endpoint is set
CanBuild(rc) == rc.endpoint # NoEndpoint

getAxiosRequestConfig(rc, t) ==
  [url |-> sanitizeEndpoint(rc.endpoint),
   method |-> rc.method,
   headers |-> [Authorization |-> <<"Bearer:", " ", t>>,
                Accept |-> "application/json",
                ContentType |-> "application/json"],
   params |-> buildParams(rc),
   data |-> rc.data]

-----------------------------------------------------------------------------
(* State *)

\* what the last step was: the method called (or the settling of a call),
\* its string argument, and what became of the call
Last(name, arg, outcome) == [name |-> name, arg |-> arg, outcome |-> outcome]

\* a call of one of the public pure helpers: its argument and what it
\* returned; fn is "none" while no helper has been called on its own
Call(fn, arg, result) == [fn |-> fn, arg |-> arg, result |-> result]

NoCall == Call("none", <<>>, <<>>)

\* the callers that share the builder, and where each is in its sequence
\* of calls: about to configure a request, about to send it, awaiting the
\* response, or done
Callers == {"A", "B"}

At(at, program) == [at |-> at, program |-> program]

NoCallers == [c \in Callers |-> At("none", "none")]

Init ==
  /\ requestConfig = PowerSchoolRequestConfig
  /\ token = Undefined
  /\ inflight = <<>>
  /\ last = Last("constructor", <<>>, "returned")
  /\ pc = NoCallers
  /\ call = NoCall

\* an optional argument is <<>> when null and <<x>> when given
Null == <<>>

RemoveAt(s, i) == SubSeq(s, 1, i - 1) \o SubSeq(s, i + 1, Len(s))

\* a fluent function whose change of the body shows in the descriptors
\* already handed to the transport
FluentSharingBody(name, arg, rc) ==
  /\ requestConfig' = rc
  /\ last' = Last(name, arg, "returned")
  /\ inflight' = [i \in 1..Len(inflight) |->
                   IF inflight[i].kind = "request"
                   THEN [inflight[i] EXCEPT !.config.data = rc.data]
                   ELSE inflight[i]]
  /\ UNCHANGED <<token, call, pc>>

\* a fluent function: changes the request config and returns this
Fluent(name, arg, rc) ==
  /\ requestConfig' = rc
  /\ last' = Last(name, arg, "returned")
  /\ UNCHANGED <<token, inflight, call, pc>>

-----------------------------------------------------------------------------
(* Token *)

SetConfig ==
  Fluent("setConfig", <<>>, PowerSchoolRequestConfig)

SetToken(t) ==
  /\ token' = t
  /\ last' = Last("setToken", <<t>>, "returned")
  /\ UNCHANGED <<requestConfig, inflight, call, pc>>

TokenRequest ==
  [url |-> <<"/", "oauth", "/", "access_token">>,
   method |-> "post",
   headers |-> [Authorization |-> <<"Basic", " ", "base64(clientId:clientSecret)">>,
                Accept |-> "application/json",
                ContentType |-> "application/x-www-form-urlencoded;charset=UTF-8"],
   params |-> EmptyObject,
   data |-> <<"grant_type=client_credentials">>]

\* retrieveToken without the early return
RetrieveTokenAlways(force) ==
  /\ Len(inflight) < MaxInflight
  /\ inflight' = Append(inflight,
       [kind |-> "token", config |-> TokenRequest, force |-> force])
  /\ last' = Last("retrieveToken", <<IF force THEN "true" ELSE "false">>, "pending")
  /\ UNCHANGED <<requestConfig, token, call, pc>>

\* retrieveToken up to its await: returns at once when a token is held and
\* force is off, else posts the client-credentials grant
RetrieveToken(force) ==
  IF tokenSet(token) /\ ~force
  THEN /\ last' = Last("retrieveToken", <<"false">>, "resolved")
       /\ UNCHANGED <<requestConfig, token, inflight, call, pc>>
  ELSE /\ Len(inflight) < MaxInflight
       /\ inflight' = Append(inflight,
            [kind |-> "token", config |-> TokenRequest, force |-> force])
       /\ last' = Last("retrieveToken", <<IF force THEN "true" ELSE "false">>, "pending")
       /\ UNCHANGED <<requestConfig, token, call, pc>>

\* retrieveToken after its await.  res is <<"fail">> when the transport
\* rejects, <<"body">> for a body without access_token and
\* <<"body", t>> for a body whose access_token is t.  The step is recorded
\* with the force argument of the call in front of res.
RetrieveTokenSettled(i, res) ==
  /\ i \in 1..Len(inflight)
  /\ inflight[i].kind = "token"
  /\ inflight' = RemoveAt(inflight, i)
  /\ LET arg == <<IF inflight[i].force THEN "true" ELSE "false">> \o res
     IN IF res[1] = "fail"
        THEN /\ token' = token
             /\ last' = Last("retrieveTokenSettled", arg, "rejected")
        ELSE /\ token' = (IF Len(res) >= 2 THEN res[2] ELSE Undefined)
             /\ last' = Last("retrieveTokenSettled", arg, "resolved")
  /\ UNCHANGED <<requestConfig, call, pc>>

-----------------------------------------------------------------------------
(* Sending requests *)

\* send up to its await, on the config rc the caller of send left: the
\* descriptor is built and handed to the transport; building it throws
\* when no endpoint is set.  url and method are strings and params is a
\* new object; data is the pending body object itself, which
\* client.request (axios ^1.4.0, mergeConfig) copies before it returns,
\* so what is in flight is the value the descriptor had at the call
SendFrom(name, arg, rc) ==
  /\ requestConfig' = rc
  /\ UNCHANGED <<token, call, pc>>
  /\ IF CanBuild(rc)
     THEN /\ Len(inflight) < MaxInflight
          /\ inflight' = Append(inflight,
                [kind |-> "request", config |-> getAxiosRequestConfig(rc, token)])
          /\ last' = Last(name, arg, "pending")
     ELSE /\ inflight' = inflight
          /\ last' = Last(name, arg, "rejected")

Send == SendFrom("send", <<>>, requestConfig)

\* send after its await, with a second attempt when the transport fails
SendSettledRetrying(i, res) ==
  /\ i \in 1..Len(inflight)
  /\ inflight[i].kind = "request"
  /\ inflight' = (IF res = "ok" THEN RemoveAt(inflight, i) ELSE inflight)
  /\ last' = Last("sendSettled", <<res>>,
                  IF res = "ok" THEN "resolved" ELSE "pending")
  /\ UNCHANGED <<requestConfig, token, call, pc>>

\* send after its await: res is "ok" or "fail"
SendSettled(i, res) ==
  /\ i \in 1..Len(inflight)
  /\ inflight[i].kind = "request"
  /\ inflight' = RemoveAt(inflight, i)
  /\ last' = Last("sendSettled", <<res>>,
                  IF res = "ok" THEN "resolved" ELSE "rejected")
  /\ UNCHANGED <<requestConfig, token, call, pc>>

Get(endpoint) ==
  SendFrom("get", IF endpoint = Null THEN <<"null">> ELSE endpoint[1],
           setMethod(IF endpoint # Null /\ endpoint[1] # <<>>
                     THEN setEndpoint(requestConfig, endpoint[1])
                     ELSE requestConfig,
                     "get"))

Delete(endpoint) ==
  SendFrom("delete", IF endpoint = Null THEN <<"null">> ELSE endpoint[1],
           setMethod(IF endpoint # Null /\ endpoint[1] # <<>>
                     THEN setEndpoint(requestConfig, endpoint[1])
                     ELSE requestConfig,
                     "delete"))

\* sendSugar that passes the endpoint on and drops the data
sendSugarEndpointOnly(rc, endpoint, data) ==
  IF endpoint # Null THEN setEndpoint(rc, endpoint[1]) ELSE rc

sendSugar(rc, endpoint, data) ==
  LET rc1 == IF endpoint # Null THEN setEndpoint(rc, endpoint[1]) ELSE rc
  IN IF data # Null THEN setData(rc1, data[1]) ELSE rc1

Post(endpoint, data) ==
  SendFrom("post", IF endpoint = Null THEN <<"null">> ELSE endpoint[1],
           sendSugar(setMethod(requestConfig, "post"), endpoint, data))

Put(endpoint, data) ==
  SendFrom("put", IF endpoint = Null THEN <<"null">> ELSE endpoint[1],
           sendSugar(setMethod(requestConfig, "put"), endpoint, data))

Patch(endpoint, data) ==
  SendFrom("patch", IF endpoint = Null THEN <<"null">> ELSE endpoint[1],
           sendSugar(setMethod(requestConfig, "patch"), endpoint, data))

\* count that leaves the projection flag as it is
CountKeepProjection ==
  /\ Len(requestConfig.endpoint) < MaxEndpointLen
  /\ SendFrom("count", <<>>,
              setMethod([requestConfig EXCEPT
                           !.endpoint = @ \o <<"/", "count">>],
                        "get"))

Count ==
  /\ Len(requestConfig.endpoint) < MaxEndpointLen
  /\ SendFrom("count", <<>>,
              setMethod([requestConfig EXCEPT
                           !.endpoint = @ \o <<"/", "count">>,
                           !.includeProjection = FALSE],
                        "get"))

\* getDataSubscriptionChanges without the setConfig() in front
GetDataSubscriptionChangesNoReset(applicationName, version) ==
  LET endpoint == <<"/", "ws", "/", "dataversion", "/", applicationName, "/",
                    NumberToString(version)>>
  IN SendFrom("getDataSubscriptionChanges", endpoint,
              setMethod(setEndpoint(requestConfig, endpoint), "get"))

GetDataSubscriptionChanges(applicationName, version) ==
  LET endpoint == <<"/", "ws", "/", "dataversion", "/", applicationName, "/",
                    NumberToString(version)>>
  IN SendFrom("getDataSubscriptionChanges", endpoint,
              setMethod(setEndpoint(PowerSchoolRequestConfig, endpoint), "get"))

-----------------------------------------------------------------------------
(* Fluent functions, as steps *)

SetTable(table) == Fluent("setTable", table, setTable(requestConfig, table))

SetId(id) ==
  /\ Len(requestConfig.endpoint) < MaxEndpointLen
  /\ Fluent("setId", <<NumberToString(id)>>, setId(requestConfig, id))

ExcludeProjection ==
  Fluent("excludeProjection", <<>>, excludeProjection(requestConfig))

IncludeProjection ==
  Fluent("includeProjection", <<>>, includeProjection(requestConfig))

SetEndpoint(endpoint) ==
  Fluent("setEndpoint", endpoint, setEndpoint(requestConfig, endpoint))

SetData(data) == Fluent("setData", <<>>, setData(requestConfig, data))

WithQueryParams(queryParams) ==
  Fluent("withQueryParams", <<>>, withQueryParams(requestConfig, queryParams))

AddQueryParam(key, value) ==
  Fluent("addQueryParam", <<key>>, addQueryParam(requestConfig, key, value))

SetDataItem(key, value) ==
  Fluent("setDataItem", <<key>>, setDataItem(requestConfig, key, value))

SetMethod(method) ==
  Fluent("setMethod", <<method>>, setMethod(requestConfig, method))

SetNamedQuery(name, data) ==
  Fluent("setNamedQuery", name, setNamedQuery(requestConfig, name, data))

Projection(p) == Fluent("projection", <<>>, projection(requestConfig, p))

Page(p) == Fluent("page", <<>>, page(requestConfig, p))

PageSize(size) == Fluent("pageSize", <<>>, pageSize(requestConfig, size))

\* descending is FALSE when the argument is left out
Sort(columns, descending) ==
  Fluent("sort", <<>>,
         sort(requestConfig, columns,
              IF descending = Null THEN FALSE ELSE descending[1]))

AdHocOrder(expression) ==
  Fluent("adHocOrder", <<>>, adHocOrder(requestConfig, expression))

IncludeCount == Fluent("includeCount", <<>>, includeCount(requestConfig))

Expansions(e) == Fluent("expansions", <<>>, expansions(requestConfig, e))

Extensions(e) == Fluent("extensions", <<>>, extensions(requestConfig, e))

DataVersion(version, applicationName) ==
  Fluent("dataVersion", <<>>,
         dataVersion(requestConfig, version, applicationName))

-----------------------------------------------------------------------------
(* The token and the transport: calls may overlap *)

Tokens == {"tokenA", "tokenB"}

TokenResponses == {<<"fail">>, <<"body">>} \cup {<<"body", t>> : t \in Tokens}

SendResponses == {"ok", "fail"}

TableT == <<"T">>

Next ==
  \/ SetConfig
  \/ \E t \in Tokens : SetToken(t)
  \/ \E force \in BOOLEAN : RetrieveToken(force)
  \/ \E i \in 1..MaxInflight, res \in TokenResponses : RetrieveTokenSettled(i, res)
  \/ SetTable(TableT)
  \/ Send
  \/ \E i \in 1..MaxInflight, res \in SendResponses : SendSettled(i, res)
  \/ \E version \in 0..MaxId : GetDataSubscriptionChanges("app", version)

Spec == Init /\ [][Next]_vars

-----------------------------------------------------------------------------
(* Endpoints: one caller, who awaits every request before the next call *)

TablePath == TablePrefix \o <<"/", "T">>

Metadata == <<"/", "ws", "/", "v1", "/", "metadata">>

Endpoints ==
  {TablePath,
   TablePath \o <<"/">>,
   TablePath \o <<"/", "1">>,
   TablePath \o <<"/", "0">>,
   Metadata,
   <<"/", "/", "ws", "/", "/", "v1", "/", "metadata", "/">>}

Tables == {TableT, TablePath, <<"/", "T", "/">>}

QueryName == <<"q">>

Names == {QueryName, QueryPrefix \o <<"/">> \o QueryName}

OptionalEndpoints == {Null, <<TablePath \o <<"/", "1">>>>, <<Metadata>>}

Idle == inflight = <<>>

NextEndpoint ==
  \/ Idle /\ SetConfig
  \/ Idle /\ \E endpoint \in Endpoints : SetEndpoint(endpoint)
  \/ Idle /\ \E table \in Tables : SetTable(table)
  \/ Idle /\ \E id \in 0..MaxId : SetId(id)
  \/ Idle /\ \E name \in Names : SetNamedQuery(name, EmptyObject)
  \/ Idle /\ Count
  \/ Idle /\ \E endpoint \in OptionalEndpoints : Get(endpoint)
  \/ Idle /\ \E endpoint \in OptionalEndpoints : Delete(endpoint)
  \/ Idle /\ \E endpoint \in OptionalEndpoints : Post(endpoint, Null)
  \/ Idle /\ \E endpoint \in OptionalEndpoints : Put(endpoint, Null)
  \/ Idle /\ \E endpoint \in OptionalEndpoints : Patch(endpoint, Null)
  \/ \E res \in SendResponses : SendSettled(1, res)

SpecEndpoint == Init /\ [][NextEndpoint]_vars

-----------------------------------------------------------------------------
(* Params and body: one caller, nothing sent *)

String(tok) == <<"string", tok>>

Keys == {"projection", "param1"}

Values == {String("one"), <<"array", "f1", "f2">>, <<"boolean", "true">>}

Objects ==
  {EmptyObject,
   [param1 |-> String("one")],
   [projection |-> String("f1"), param1 |-> String("two")]}

QueryStrings == {<<"param1", "=", "one", "&", "param2", "=", "two">>}

QueryObjects == {EmptyObject, [projection |-> String("f2")]}

Methods == {"get", "GET", "Get", "post", "POST"}

Version == <<"number", "5">>

ApplicationName == String("app")

NextParams ==
  \/ SetConfig
  \/ ExcludeProjection
  \/ IncludeProjection
  \/ \E data \in Objects : SetData(data)
  \/ \E str \in QueryStrings : WithQueryParams([type |-> "string", value |-> str])
  \/ \E obj \in QueryObjects : WithQueryParams([type |-> "object", value |-> obj])
  \/ \E key \in Keys, value \in Values : AddQueryParam(key, value)
  \/ \E key \in Keys, value \in Values : SetDataItem(key, value)
  \/ \E method \in Methods : SetMethod(method)
  \/ \E p \in Values : Projection(p)

SpecParams == Init /\ [][NextParams]_vars

-----------------------------------------------------------------------------
(* Body and named queries: one caller, nothing sent *)

BodyValues == Values \cup {<<"number", "19">>, <<"null">>}

NextBody ==
  \/ SetConfig
  \/ IncludeProjection
  \/ \E method \in Methods : SetMethod(method)
  \/ \E data \in Objects : SetData(data)
  \/ \E key \in Keys, value \in BodyValues : SetDataItem(key, value)
  \/ DataVersion(Version, ApplicationName)
  \/ \E name \in Names, data \in Objects : SetNamedQuery(name, data)

SpecBody == Init /\ [][NextBody]_vars

-----------------------------------------------------------------------------
(* The verbs: one caller, who awaits every request before the next call *)

Verbs == {"get", "delete", "post", "put", "patch"}

Body == [param1 |-> String("one")]

OptionalBodies == {Null, <<[projection |-> String("f1")]>>}

Verb(verb, endpoint, data) ==
  CASE verb = "get" -> Get(endpoint)
    [] verb = "delete" -> Delete(endpoint)
    [] verb = "post" -> Post(endpoint, data)
    [] verb = "put" -> Put(endpoint, data)
    [] verb = "patch" -> Patch(endpoint, data)

NextDispatch ==
  \/ Idle /\ SetConfig
  \/ Idle /\ SetTable(TableT)
  \/ Idle /\ SetData(Body)
  \/ Idle /\ AddQueryParam("param1", String("two"))
  \/ Idle /\ \E endpoint \in OptionalEndpoints : Get(endpoint)
  \/ Idle /\ \E endpoint \in OptionalEndpoints : Delete(endpoint)
  \/ Idle /\ \E endpoint \in OptionalEndpoints, data \in OptionalBodies :
                Post(endpoint, data)
  \/ Idle /\ \E endpoint \in OptionalEndpoints, data \in OptionalBodies :
                Put(endpoint, data)
  \/ Idle /\ \E endpoint \in OptionalEndpoints, data \in OptionalBodies :
                Patch(endpoint, data)
  \/ Idle /\ \E version \in 0..MaxId : GetDataSubscriptionChanges("app", version)
  \/ \E res \in SendResponses : SendSettled(1, res)

SpecDispatch == Init /\ [][NextDispatch]_vars

-----------------------------------------------------------------------------
(* The convenience setters: one caller, nothing sent *)

Columns == {String("last_name"), <<"array", "last_name", "first_name">>}

OptionalDescending == {Null, <<TRUE>>, <<FALSE>>}

Fields == <<"array", "f1", "f2">>

NextSetters ==
  \/ SetConfig
  \/ \E method \in {"get", "post"} : SetMethod(method)
  \/ SetData(Body)
  \/ AddQueryParam("param1", String("two"))
  \/ \E columns \in Columns, descending \in OptionalDescending :
       Sort(columns, descending)
  \/ Page(<<"number", "2">>)
  \/ PageSize(<<"number", "19">>)
  \/ Projection(Fields)
  \/ AdHocOrder(String("name"))
  \/ IncludeCount
  \/ Expansions(Fields)
  \/ Extensions(String("e1"))

SpecSetters == Init /\ [][NextSetters]_vars

-----------------------------------------------------------------------------
(* The projection flag: one caller, nothing sent *)

NextProjection ==
  \/ SetConfig
  \/ SetTable(TableT)
  \/ SetEndpoint(Metadata)
  \/ \E method \in {"GET", "post"} : SetMethod(method)
  \/ \E data \in Objects : SetData(data)
  \/ \E key \in Keys : AddQueryParam(key, String("f2"))
  \/ ExcludeProjection
  \/ IncludeProjection

SpecProjection == Init /\ [][NextProjection]_vars

-----------------------------------------------------------------------------
(* Endpoint after params and body: one caller, nothing sent *)

NextFrame ==
  \/ SetConfig
  \/ SetToken("tokenA")
  \/ SetMethod("post")
  \/ \E data \in OptionalBodies \ {Null} : SetData(data[1])
  \/ SetDataItem("param1", <<"number", "19">>)
  \/ AddQueryParam("param1", String("two"))
  \/ \E endpoint \in {TablePath, Metadata} : SetEndpoint(endpoint)
  \/ SetTable(TableT)
  \/ \E id \in 0..MaxId : SetId(id)
  \/ \E name \in Names, data \in {EmptyObject, Body} : SetNamedQuery(name, data)

SpecFrame == Init /\ [][NextFrame]_vars

-----------------------------------------------------------------------------
(* The projection flag over endpoint changes: one caller, who awaits every
   request before the next call *)

NextOverride ==
  \/ Idle /\ SetConfig
  \/ Idle /\ SetTable(TableT)
  \/ Idle /\ SetEndpoint(Metadata)
  \/ Idle /\ \E id \in 0..MaxId : SetId(id)
  \/ Idle /\ ExcludeProjection
  \/ Idle /\ IncludeProjection
  \/ Idle /\ \E endpoint \in OptionalEndpoints : Get(endpoint)
  \/ Idle /\ \E endpoint \in OptionalEndpoints : Delete(endpoint)
  \/ Idle /\ \E endpoint \in OptionalEndpoints : Post(endpoint, Null)
  \/ Idle /\ \E endpoint \in OptionalEndpoints : Put(endpoint, Null)
  \/ Idle /\ \E endpoint \in OptionalEndpoints : Patch(endpoint, Null)
  \/ \E res \in SendResponses : SendSettled(1, res)

SpecOverride == Init /\ [][NextOverride]_vars

-----------------------------------------------------------------------------
(* Configuring while requests are in flight: send is not awaited *)

NextInFlight ==
  \/ SetConfig
  \/ SetTable(TableT)
  \/ SetEndpoint(Metadata)
  \/ SetMethod("post")
  \/ SetDataItem("param1", String("one"))
  \/ AddQueryParam("param1", String("two"))
  \/ Send
  \/ \E i \in 1..MaxInflight, res \in SendResponses : SendSettled(i, res)

SpecInFlight == Init /\ [][NextInFlight]_vars

-----------------------------------------------------------------------------
(* Counting: one caller, who awaits every request before the next call *)

NextCount ==
  \/ Idle /\ SetConfig
  \/ Idle /\ SetTable(TableT)
  \/ Idle /\ SetNamedQuery(QueryName, EmptyObject)
  \/ Idle /\ \E method \in {"post", "GET"} : SetMethod(method)
  \/ Idle /\ \E key \in Keys : AddQueryParam(key, String("one"))
  \/ Idle /\ IncludeProjection
  \/ Idle /\ Count
  \/ \E res \in SendResponses : SendSettled(1, res)

SpecCount == Init /\ [][NextCount]_vars

-----------------------------------------------------------------------------
(* Two callers on one builder, each configuring a request and sending it *)

Programs == {"table", "query", "metadata"}

\* what a caller's configuring calls make of the request config
Configured(program, rc) ==
  CASE program = "table" -> setTable(rc, TableT)
    [] program = "query" -> setNamedQuery(rc, QueryName, Body)
    [] program = "metadata" ->
         addQueryParam(setEndpoint(rc, Metadata), "param1", String("two"))

\* the request the program dispatches on a builder nobody else uses
Alone(program) ==
  getAxiosRequestConfig(Configured(program, PowerSchoolRequestConfig), token)

InitCallers ==
  /\ requestConfig = PowerSchoolRequestConfig
  /\ token = Undefined
  /\ inflight = <<>>
  /\ last = Last("constructor", <<>>, "returned")
  /\ call = NoCall
  /\ pc = [c \in Callers |-> At("configure", "none")]

\* the caller's fluent calls, which run to their end without a break
CallerConfigure(c, program) ==
  /\ pc[c].at = "configure"
  /\ requestConfig' = Configured(program, requestConfig)
  /\ last' = Last("configure", <<c, program>>, "returned")
  /\ pc' = [pc EXCEPT ![c] = At("send", program)]
  /\ UNCHANGED <<token, inflight, call>>

\* send by a caller that builds the request the caller configured
CallerSendIsolated(c) ==
  /\ pc[c].at = "send"
  /\ inflight' = Append(inflight,
       [kind |-> "request", config |-> Alone(pc[c].program), caller |-> c])
  /\ last' = Last("send", <<c>>, "pending")
  /\ pc' = [pc EXCEPT ![c] = At("await", pc[c].program)]
  /\ UNCHANGED <<requestConfig, token, call>>

\* send by a caller, up to its await
CallerSend(c) ==
  /\ pc[c].at = "send"
  /\ CanBuild(requestConfig)
  /\ inflight' = Append(inflight,
       [kind |-> "request",
        config |-> getAxiosRequestConfig(requestConfig, token),
        caller |-> c])
  /\ last' = Last("send", <<c>>, "pending")
  /\ pc' = [pc EXCEPT ![c] = At("await", pc[c].program)]
  /\ UNCHANGED <<requestConfig, token, call>>

\* the caller's send after its await
CallerSettled(c, res) ==
  /\ pc[c].at = "await"
  /\ \E i \in 1..Len(inflight) :
       /\ inflight[i].caller = c
       /\ inflight' = RemoveAt(inflight, i)
  /\ last' = Last("sendSettled", <<c, res>>,
                  IF res = "ok" THEN "resolved" ELSE "rejected")
  /\ pc' = [pc EXCEPT ![c] = At("done", pc[c].program)]
  /\ UNCHANGED <<requestConfig, token, call>>

NextCallers ==
  \/ \E c \in Callers, program \in Programs : CallerConfigure(c, program)
  \/ \E c \in Callers : CallerSend(c)
  \/ \E c \in Callers, res \in SendResponses : CallerSettled(c, res)

SpecCallers == InitCallers /\ [][NextCallers]_vars

-----------------------------------------------------------------------------
(* sanitizeEndpoint on its own: any string of slashes and segments *)

\* a helper called on an argument of its own: nothing of the builder changes
Helper(fn, arg, result) ==
  /\ call' = Call(fn, arg, result)
  /\ UNCHANGED <<requestConfig, token, inflight, last, pc>>

RECURSIVE StringsOfLen(_)
StringsOfLen(n) ==
  IF n = 0 THEN {<<>>}
  ELSE {<<c>> \o s : c \in {"/", "a"}, s \in StringsOfLen(n - 1)}

Strings == UNION {StringsOfLen(n) : n \in 0..MaxStringLen}

InitSanitize ==
  /\ requestConfig = PowerSchoolRequestConfig
  /\ token = Undefined
  /\ inflight = <<>>
  /\ last = Last("constructor", <<>>, "returned")
  /\ pc = NoCallers
  /\ \E e \in Strings : call = Call("input", e, e)

\* sanitizeEndpoint applied to what the previous call returned
SanitizeEndpoint ==
  Helper("sanitizeEndpoint", call.result, sanitizeEndpoint(call.result))

NextSanitize == SanitizeEndpoint

SpecSanitize == InitSanitize /\ [][NextSanitize]_vars

-----------------------------------------------------------------------------
(* castValueToString and castValuesToString on their own *)

RECURSIVE ArraysOfLen(_)
ArraysOfLen(n) ==
  IF n = 0 THEN {<<>>}
  ELSE {<<e>> \o a : e \in {"f1", "f2", "3", "4"}, a \in ArraysOfLen(n - 1)}

CastValues ==
  {<<"boolean", "true">>, <<"boolean", "false">>, <<"null">>, <<"undefined">>,
   <<"number", "19">>, <<"number", "0">>, String("one"), String("true"),
   <<"object", EmptyObject>>}
    \cup {<<"array">> \o a : a \in UNION {ArraysOfLen(n) : n \in 0..MaxArrayLen}}

InitCast ==
  /\ requestConfig = PowerSchoolRequestConfig
  /\ token = Undefined
  /\ inflight = <<>>
  /\ last = Last("constructor", <<>>, "returned")
  /\ pc = NoCallers
  /\ \E value \in CastValues : call = Call("input", value, value)

\* castValueToString applied to the value given, or to what it returned
CastValueToString ==
  Helper("castValueToString", call.result, castValueToString(call.result))

NextCast == CastValueToString

SpecCast == InitCast /\ [][NextCast]_vars

Scalars ==
  {<<"boolean", "true">>, <<"null">>, <<"undefined">>, <<"array", "f1", "f2">>,
   <<"number", "19">>, String("one")}

\* the mappings with keys from keys and values from values
MappingsOver(keys, values) == UNION {[ks -> values] : ks \in SUBSET keys}

\* the entries of a mapping that nests up to depth deep: scalars, and
\* mappings with the one key 'c' nesting one level less
RECURSIVE EntriesOfDepth(_)
EntriesOfDepth(depth) ==
  IF depth = 0 THEN Scalars
  ELSE Scalars \cup {<<"object", m>> :
                       m \in MappingsOver({"c"}, EntriesOfDepth(depth - 1))}

Mappings ==
  {<<"object", m>> : m \in MappingsOver({"a", "b"}, EntriesOfDepth(MaxDepth))}

InitCastValues ==
  /\ requestConfig = PowerSchoolRequestConfig
  /\ token = Undefined
  /\ inflight = <<>>
  /\ last = Last("constructor", <<>>, "returned")
  /\ pc = NoCallers
  /\ \E data \in Mappings : call = Call("input", data, data)

CastValuesToString ==
  /\ call.fn = "input"
  /\ Helper("castValuesToString", call.arg, castValuesToString(call.arg))

NextCastValues == CastValuesToString

SpecCastValues == InitCastValues /\ [][NextCastValues]_vars

-----------------------------------------------------------------------------
(* PowerSchoolResponse: the wrapped body and one iterator over it *)

\* a body is the sequence of its <<key, value>> pairs in the order the
\* keys were inserted; a key that is a numeral is an integer index
IsIndex(key) == key # "" /\ ~isNaN(Number(key))

\* the keys of pairs, in the order of insertion
RECURSIVE InsertionOrder(_)
InsertionOrder(pairs) ==
  IF pairs = <<>> THEN <<>>
  ELSE <<pairs[1][1]>> \o InsertionOrder(Tail(pairs))

\* the integer indices among keys, ascending
RECURSIVE Ascending(_)
Ascending(indices) ==
  IF indices = {} THEN <<>>
  ELSE LET least == CHOOSE i \in indices : \A j \in indices : i <= j
       IN <<NumberToString(least)>> \o Ascending(indices \ {least})

\* for (const entry in rawData) with the keys visited as they were inserted
forInAsInserted(rawData) == InsertionOrder(rawData)

\* for (const entry in rawData): the order in which the keys of an object
\* are visited, integer indices ascending first, then the other keys as
\* they were inserted
forIn(rawData) ==
  LET keys == InsertionOrder(rawData)
  IN Ascending({Number(keys[i]) : i \in {j \in 1..Len(keys) : IsIndex(keys[j])}})
       \o SelectSeq(keys, LAMBDA key : ~IsIndex(key))

\* rawData[entry]
Lookup(rawData, entry) ==
  rawData[CHOOSE i \in 1..Len(rawData) : rawData[i][1] = entry][2]

RECURSIVE BodiesOfLen(_)
BodiesOfLen(n) ==
  IF n = 0 THEN {<<>>}
  ELSE {Append(body, <<key, value>>) :
          body \in BodiesOfLen(n - 1),
          key \in {"name", "record", "1", "0"},
          value \in {"x", "y"}}

\* the bodies with distinct keys
ResponseBodies ==
  {body \in UNION {BodiesOfLen(n) : n \in 0..MaxKeys} :
     \A i, j \in 1..Len(body) : body[i][1] = body[j][1] => i = j}

\* new PowerSchoolResponse(res.data)
InitResponse ==
  /\ requestConfig = PowerSchoolRequestConfig
  /\ token = Undefined
  /\ inflight = <<>>
  /\ last = Last("constructor", <<>>, "returned")
  /\ pc = NoCallers
  /\ \E data \in ResponseBodies : call = Call("PowerSchoolResponse", data, <<>>)

\* response[Symbol.iterator](): a new generator, nothing yielded yet
Iterator == Helper("iterator", call.arg, <<>>)

\* next() on the generator: the value of the next key, or done
IteratorNext ==
  /\ call.fn \in {"iterator", "yield"}
  /\ LET entries == forIn(call.arg)
         n == Len(call.result)
     IN IF n < Len(entries)
        THEN Helper("yield", call.arg,
                    Append(call.result, Lookup(call.arg, entries[n + 1])))
        ELSE Helper("done", call.arg, call.result)

NextResponse == Iterator \/ IteratorNext

SpecResponse == InitResponse /\ [][NextResponse]_vars

-----------------------------------------------------------------------------
(* Properties *)

\* C1: when a send has completed successfully, the pending request state is
\* the default state.
SendSuccessResetsPending ==
  (last.name = "sendSettled" /\ last.outcome = "resolved")
    => requestConfig = PowerSchoolRequestConfig

\* C2: every resource request handed to the transport carries a held token
\* in its Authorization header; none is dispatched while no token is held.
DispatchedRequestCarriesToken ==
  \A i \in 1..Len(inflight) :
    inflight[i].kind = "request" =>
      LET auth == inflight[i].config.headers.Authorization
      IN tokenSet(auth[Len(auth)])

\* C3: when the transport fails during send, the failure reaches the caller,
\* the pending request state is reset to the default state and the token is
\* unchanged.
SendFailurePropagatesAndResets ==
  [][(last'.name = "sendSettled" /\ last'.arg = <<"fail">>)
       => /\ last'.outcome = "rejected"
          /\ requestConfig' = PowerSchoolRequestConfig
          /\ token' = token]_vars

\* C4: a held token is changed only by setToken or by a forced
\* retrieveToken; every other step leaves it as it is.
HeldTokenChangedOnlyByForce ==
  [][(tokenSet(token) /\ token' # token)
       => \/ last'.name = "setToken"
          \/ last'.name = "retrieveTokenSettled" /\ last'.arg[1] = "true"]_vars

\* C5: retrieveToken(false) called while a token is held starts no token
\* exchange, leaves the token and the pending request state unchanged and
\* resolves at once, so that repeating the call changes nothing either.
UnforcedRetrieveIsNoOp ==
  [][(last'.name = "retrieveToken" /\ last'.arg = <<"false">> /\ tokenSet(token))
       => /\ token' = token
          /\ requestConfig' = requestConfig
          /\ inflight' = inflight
          /\ last'.outcome = "resolved"]_vars

\* C5 witness: an unforced retrieveToken has returned at once on a builder
\* that holds a token and has a configured pending request.
UnforcedRetrieveReturned ==
  /\ last = Last("retrieveToken", <<"false">>, "resolved")
  /\ tokenSet(token)
  /\ requestConfig # PowerSchoolRequestConfig

\* C6: a token exchange that fails, or whose body has no access_token,
\* ends retrieveToken with an error and leaves a builder without a token
\* without one.
FailedExchangeIsAnError ==
  [][(/\ last'.name = "retrieveTokenSettled"
      /\ \/ last'.arg[2] = "fail"
         \/ last'.arg[2] = "body" /\ Len(last'.arg) = 2)
       => /\ last'.outcome = "rejected"
          /\ ~tokenSet(token) => ~tokenSet(token')]_vars

\* C7: buildParams is the right-biased merge of the default projection, the
\* body (when the method is GET in any letter case) and the explicit params:
\* a key has the explicit param's value if there is one, else the body's
\* value on GET, else '*' if it is 'projection' and the flag is on, else it
\* is absent.
AllKeys ==
  {"projection"} \cup DOMAIN requestConfig.data \cup DOMAIN requestConfig.params

BuildParamsIsRightBiasedMerge ==
  LET built == buildParams(requestConfig)
      isGet == requestConfig.method \in {"get", "GET", "Get"}
  IN /\ DOMAIN built \subseteq AllKeys
     /\ \A k \in AllKeys :
          IF k \in DOMAIN requestConfig.params
          THEN k \in DOMAIN built /\ built[k] = requestConfig.params[k]
          ELSE IF isGet /\ k \in DOMAIN requestConfig.data
          THEN k \in DOMAIN built /\ built[k] = requestConfig.data[k]
          ELSE IF k = "projection" /\ requestConfig.includeProjection
          THEN k \in DOMAIN built /\ built[k] = <<"string", "*">>
          ELSE k \notin DOMAIN built

\* C7 witness: a GET written in upper case with the projection flag on whose body and
\* explicit params both have a 'projection' key, with different values, and
\* whose body has a key the explicit params lack.
ProjectionSetThreeWays ==
  /\ requestConfig.method = "GET"
  /\ requestConfig.includeProjection
  /\ "projection" \in DOMAIN requestConfig.data
  /\ "projection" \in DOMAIN requestConfig.params
  /\ requestConfig.data["projection"] # requestConfig.params["projection"]
  /\ "param1" \in DOMAIN requestConfig.data \ DOMAIN requestConfig.params

\* C8: after an endpoint-setting operation tableName, recordId and the
\* projection flag are what the same operation derives on a builder whose
\* only state is the endpoint: nothing derived earlier survives or takes
\* part.
Derived(rc) == <<rc.table, rc.id, rc.includeProjection>>

Fresh(rc) == [PowerSchoolRequestConfig EXCEPT !.endpoint = rc.endpoint]

DerivedFromEndpointAlone ==
  [][/\ last'.name = "setEndpoint"
        => Derived(requestConfig')
             = Derived(setEndpoint(Fresh(requestConfig), last'.arg))
     /\ last'.name = "setTable"
        => Derived(requestConfig')
             = Derived(setTable(Fresh(requestConfig), last'.arg))
     /\ last'.name = "setId"
        => Derived(requestConfig')
             = Derived(setId(Fresh(requestConfig), Number(last'.arg[1])))
     /\ last'.name = "setNamedQuery"
        => Derived(requestConfig')
             = Derived(setNamedQuery(Fresh(requestConfig), last'.arg, EmptyObject))
     /\ (/\ last'.name \in {"get", "delete", "post", "put", "patch"}
         /\ last'.arg # <<"null">>)
        => Derived(requestConfig')
             = Derived(setEndpoint(Fresh(requestConfig), last'.arg))]_vars

\* C9: '/ws/schema/table/T/N', set directly or by setTable(T) then setId(N),
\* yields recordId N, tableName T and projection on; '/ws/schema/table/T'
\* yields tableName T and projection on; a path without the table marker
\* yields projection off.
TableEndpointDerivation ==
  [][/\ \A N \in 0..MaxId :
          \/ /\ last'.name = "setEndpoint"
             /\ last'.arg = TablePath \o <<"/", NumberToString(N)>>
          \/ /\ last.name = "setTable" /\ last.arg = TableT
             /\ last'.name = "setId" /\ last'.arg = <<NumberToString(N)>>
          => /\ requestConfig'.id = N
             /\ requestConfig'.table = "T"
             /\ requestConfig'.includeProjection
     /\ (last'.name = "setEndpoint" /\ last'.arg = TablePath)
          => /\ requestConfig'.table = "T"
             /\ requestConfig'.includeProjection
     /\ (last'.name = "setEndpoint" /\ ~Includes(last'.arg, <<"table">>))
          => ~requestConfig'.includeProjection]_vars

\* C10: the stored endpoint, once set, has no two consecutive slashes and
\* no trailing slash, and is the url of the descriptor built from it.
NoDoubleSlash(s) == ~Includes(s, <<"/", "/">>)

StoredEndpointNormalized ==
  requestConfig.endpoint # NoEndpoint
    => /\ NoDoubleSlash(requestConfig.endpoint)
       /\ ~EndsWith(requestConfig.endpoint, "/")
       /\ getAxiosRequestConfig(requestConfig, token).url = requestConfig.endpoint

\* C10 witness: setEndpoint was given a path with doubled slashes and a
\* trailing slash, and a non-empty endpoint is stored.
UnnormalizedEndpointGiven ==
  /\ last.name = "setEndpoint"
  /\ ~NoDoubleSlash(last.arg)
  /\ EndsWith(last.arg, "/")
  /\ requestConfig.endpoint # <<>>
  /\ requestConfig.endpoint # NoEndpoint

\* C11: normalizing a normalized endpoint changes nothing:
\* sanitizeEndpoint(sanitizeEndpoint(e)) = sanitizeEndpoint(e) for every
\* string e, the empty string and strings of slashes only included.
SanitizeIdempotent ==
  [][(call.fn = "sanitizeEndpoint" /\ call'.fn = "sanitizeEndpoint")
       => call'.result = call.result]_vars

\* C11 witness: sanitizeEndpoint has been applied to its own result for a
\* string that the first application changed.
SanitizedTwice ==
  /\ call.fn = "sanitizeEndpoint"
  /\ call.arg = call.result
  /\ call.result # <<>>
  /\ \E e \in Strings :
       /\ e # call.result
       /\ Includes(e, <<"/", "/">>)
       /\ EndsWith(e, "/")
       /\ sanitizeEndpoint(e) = call.result

\* C12: setTable gives one pending state for the bare and the absolute form
\* of a table name: endpoint '/ws/schema/table/T', table T, projection on,
\* page key 'record'; the form '/T/' gives the same endpoint.
SetTableFormsAgree ==
  [][last'.name = "setTable" =>
       /\ requestConfig'.endpoint = TablePath
       /\ last'.arg \in {TableT, TablePath} =>
            /\ requestConfig' = setTable(requestConfig, TableT)
            /\ requestConfig' = setTable(requestConfig, TablePath)
            /\ requestConfig'.table = "T"
            /\ requestConfig'.includeProjection
            /\ requestConfig'.pageKey = "record"]_vars

\* C13: setId(n) on a set endpoint e stores normalize(e) + '/' + n and
\* record id n, and derives table and projection as setEndpoint derives
\* them for that path; e may have been written with a trailing slash.
SetIdAppendsAndDerives ==
  [][\A id \in 0..MaxId :
       (/\ last'.name = "setId"
        /\ last'.arg = <<NumberToString(id)>>
        /\ requestConfig.endpoint # NoEndpoint) =>
         LET path == sanitizeEndpoint(requestConfig.endpoint)
                       \o <<"/", NumberToString(id)>>
             derived == setEndpoint(requestConfig, path)
         IN /\ requestConfig'.endpoint = path
            /\ requestConfig'.id = id
            /\ requestConfig'.table = derived.table
            /\ requestConfig'.includeProjection = derived.includeProjection
            /\ last.name = "setEndpoint" =>
                 requestConfig'.endpoint =
                   sanitizeEndpoint(last.arg) \o <<"/", NumberToString(id)>>]_vars

\* C13 witness: setId(1) has acted on the endpoint of table T.
IdSetOnTableEndpoint ==
  /\ last.name = "setId"
  /\ last.arg = <<"1">>
  /\ requestConfig.endpoint = TablePath \o <<"/", "1">>
  /\ requestConfig.id = 1

\* C14: setNamedQuery(name, body) leaves method POST, endpoint
\* '/ws/schema/query/<name>', page key 'record' and projection off, whatever
\* was pending; a body with at least one key becomes the request body.
NamedQueryIsPost ==
  [][\A name \in Names, body \in Objects :
       (last'.name = "setNamedQuery" /\ SetNamedQuery(name, body)) =>
         /\ requestConfig'.method = "post"
         /\ requestConfig'.endpoint = QueryPrefix \o <<"/", "q">>
         /\ requestConfig'.pageKey = "record"
         /\ ~requestConfig'.includeProjection
         /\ body # EmptyObject => requestConfig'.data = body]_vars

\* C14 witness: setNamedQuery has acted with a body while another method
\* and the projection flag were pending.
NamedQuerySetOverPending ==
  /\ last.name = "setNamedQuery"
  /\ requestConfig.data = [param1 |-> String("one")]
  /\ requestConfig.method = "post"
  /\ ~requestConfig.includeProjection

\* the key/value pairs a query string 'k=v&k=v' denotes
KeyValuePairs(str) ==
  LET keyAt == {i \in 1..Len(str) : i % 4 = 1}
  IN [k \in {str[i] : i \in keyAt} |->
        String(str[(CHOOSE i \in keyAt : str[i] = k) + 2])]

\* C15: withQueryParams(x) makes the explicit params exactly the mapping x
\* denotes, dropping every earlier one; addQueryParam(k, v) sets key k only.
QueryParamsReplacedThenSet ==
  [][/\ \A str \in QueryStrings :
          (/\ last'.name = "withQueryParams"
           /\ WithQueryParams([type |-> "string", value |-> str]))
            => requestConfig'.params = KeyValuePairs(str)
     /\ \A obj \in QueryObjects :
          (/\ last'.name = "withQueryParams"
           /\ WithQueryParams([type |-> "object", value |-> obj]))
            => requestConfig'.params = obj
     /\ \A key \in Keys, value \in Values :
          (last'.name = "addQueryParam" /\ AddQueryParam(key, value)) =>
            /\ DOMAIN requestConfig'.params =
                 DOMAIN requestConfig.params \cup {key}
            /\ requestConfig'.params[key] = value
            /\ \A k \in DOMAIN requestConfig.params \ {key} :
                 requestConfig'.params[k] = requestConfig.params[k]]_vars

\* C15 witness: addQueryParam has set 'projection' after withQueryParams
\* of a query string, whose pairs are still there.
ParamAddedAfterQueryString ==
  /\ last.name = "addQueryParam"
  /\ last.arg = <<"projection">>
  /\ DOMAIN requestConfig.params = {"param1", "param2", "projection"}
  /\ requestConfig.params["param1"] = String("one")
  /\ requestConfig.params["param2"] = String("two")

\* C16: with token t held and an endpoint set, the descriptor has
\* Authorization 'Bearer ' + t, Accept and Content-Type 'application/json',
\* the pending method, the normalized endpoint as url, buildParams() as
\* params and the body as data.
DescriptorFields ==
  (tokenSet(token) /\ CanBuild(requestConfig)) =>
    LET config == getAxiosRequestConfig(requestConfig, token)
    IN /\ config.headers.Authorization = <<"Bearer", " ", token>>
       /\ config.headers.Accept = "application/json"
       /\ config.headers.ContentType = "application/json"
       /\ config.method = requestConfig.method
       /\ config.url = sanitizeEndpoint(requestConfig.endpoint)
       /\ config.params = buildParams(requestConfig)
       /\ config.data = requestConfig.data

\* a step that sets key k of the body to v and leaves the other keys
OnlyKeySet(k, v) ==
  /\ DOMAIN requestConfig'.data = DOMAIN requestConfig.data \cup {k}
  /\ requestConfig'.data[k] = v
  /\ \A other \in DOMAIN requestConfig.data \ {k} :
       requestConfig'.data[other] = requestConfig.data[other]

\* the body reaches the descriptor as it is stored
BodyReachesDescriptor ==
  CanBuild(requestConfig') =>
    getAxiosRequestConfig(requestConfig', token').data = requestConfig'.data

JoinedByCommas(elems, str) ==
  /\ Len(str) = (IF elems = <<>> THEN 0 ELSE 2 * Len(elems) - 1)
  /\ \A i \in 1..Len(elems) : str[2 * i - 1] = elems[i]
  /\ \A i \in 1..(Len(elems) - 1) : str[2 * i] = ","

\* C18: castValueToString returns a string for every value: '1' for true,
\* '0' for false, '' for null and undefined, the elements joined by commas
\* for an array, and the string representation of any other value.
CastValueTable ==
  call.fn = "castValueToString" =>
    LET value == call.arg
        str == Tail(call.result)
    IN /\ call.result[1] = "string"
       /\ value = <<"boolean", "true">> => str = <<"1">>
       /\ value = <<"boolean", "false">> => str = <<"0">>
       /\ value[1] \in {"null", "undefined"} => str = <<>>
       /\ value[1] = "array" => JoinedByCommas(Tail(value), str)
       /\ value[1] \in {"number", "string"} => str = Tail(value)
       /\ value[1] = "object" => str = <<"[object Object]">>

\* C18 witness: castValueToString has been given an array of two elements.
ArrayCast ==
  /\ call.fn = "castValueToString"
  /\ call.arg = <<"array", "f1", "3">>
  /\ call.result = <<"string", "f1", ",", "3">>

\* C19: castValuesToString(m) has the keys of m; a nested mapping is
\* replaced by castValuesToString of it and stays nested; any other entry,
\* null included, is replaced by castValueToString of it.
CastValuesEntrywise ==
  call.fn = "castValuesToString" =>
    LET m == call.arg[2]
        output == call.result
    IN /\ DOMAIN output = DOMAIN m
       /\ \A key \in DOMAIN m :
            IF m[key][1] = "object"
            THEN output[key] = <<"object", castValuesToString(m[key])>>
            ELSE output[key] = castValueToString(m[key])

\* C20: count() hands the transport a GET whose url is the current
\* endpoint followed by '/count' and whose params have no default
\* projection, whatever method and projection flag were pending; the
\* explicit params set before it are sent.
CountDispatchesGet ==
  [][(last'.name = "count" /\ CanBuild(requestConfig)) =>
       /\ last'.outcome = "pending"
       /\ Len(inflight') = Len(inflight) + 1
       /\ LET config == inflight'[Len(inflight')].config
          IN /\ config.method = "get"
             /\ config.url = requestConfig.endpoint \o <<"/", "count">>
             /\ "projection" \in DOMAIN config.params =>
                  \/ /\ "projection" \in DOMAIN requestConfig.params
                     /\ config.params["projection"]
                          = requestConfig.params["projection"]
                  \/ /\ "projection" \in DOMAIN requestConfig.data
                     /\ config.params["projection"]
                          = requestConfig.data["projection"]
             /\ \A k \in DOMAIN requestConfig.params :
                  /\ k \in DOMAIN config.params
                  /\ config.params[k] = requestConfig.params[k]]_vars

\* C20 witness: count() is in flight for table T, on which setTable had
\* turned the projection on, with an explicit param set before it.
CountOfTableInFlight ==
  /\ last = Last("count", <<>>, "pending")
  /\ requestConfig.table = "T"
  /\ Len(inflight) = 1
  /\ inflight[1].config.url = TablePath \o <<"/", "count">>
  /\ DOMAIN inflight[1].config.params = {"param1"}

\* C21: get, delete, post, put and patch each dispatch a request whose
\* method is the verb; its endpoint is the endpoint supplied, normalized
\* and with the derivation of setEndpoint, or else the one configured; for
\* post, put and patch its body is the body supplied or else the one
\* configured.
VerbsDispatch ==
  [][\A verb \in Verbs, endpoint \in OptionalEndpoints, data \in OptionalBodies :
       (/\ last'.name = verb
        /\ last'.outcome = "pending"
        /\ Verb(verb, endpoint, data)) =>
         LET config == inflight'[Len(inflight')].config
         IN /\ Len(inflight') = Len(inflight) + 1
            /\ config.method = verb
            /\ config.url = (IF endpoint # Null
                             THEN sanitizeEndpoint(endpoint[1])
                             ELSE requestConfig.endpoint)
            /\ endpoint # Null =>
                 Derived(requestConfig')
                   = Derived(setEndpoint(requestConfig, endpoint[1]))
            /\ verb \in {"post", "put", "patch"} =>
                 config.data = (IF data # Null THEN data[1]
                                ELSE requestConfig.data)]_vars

\* C21 witness: put was called with an endpoint and a body while another
\* body was configured, and its request is in flight.
PutInFlightWithBody ==
  /\ last.name = "put"
  /\ last.arg = Metadata
  /\ Len(inflight) = 1
  /\ inflight[1].config.method = "put"
  /\ inflight[1].config.data = [projection |-> String("f1")]
  /\ "param1" \in DOMAIN inflight[1].config.params

\* C25: getDataSubscriptionChanges(applicationName, version) dispatches a
\* GET to '/ws/dataversion/<applicationName>/<version>' built from the
\* default pending state: nothing configured before is in the request.
SubscriptionChangesFromDefault ==
  [][\A version \in 0..MaxId :
       (/\ last'.name = "getDataSubscriptionChanges"
        /\ GetDataSubscriptionChanges("app", version)) =>
         LET config == inflight'[Len(inflight')].config
         IN /\ Len(inflight') = Len(inflight) + 1
            /\ config.method = "get"
            /\ config.url = <<"/", "ws", "/", "dataversion", "/", "app", "/",
                              NumberToString(version)>>
            /\ config.params = EmptyObject
            /\ config.data = EmptyObject]_vars

\* C25 witness: the request of getDataSubscriptionChanges('app', 1) is in
\* flight, with no params and no body.
SubscriptionChangesInFlight ==
  /\ last.name = "getDataSubscriptionChanges"
  /\ last.outcome = "pending"
  /\ Len(inflight) = 1
  /\ inflight[1].config.url
       = <<"/", "ws", "/", "dataversion", "/", "app", "/", "1">>
  /\ inflight[1].config.params = EmptyObject
  /\ inflight[1].config.data = EmptyObject

\* the last segment of a path
LastSegment(path) == Split(path)[Len(Split(path))]

\* C22: after an endpoint-setting operation the page key is 'record' when
\* the endpoint is a table path or a named-query path and the last segment
\* of the endpoint otherwise; it is never left from an earlier endpoint.
PageKeyFollowsEndpoint ==
  [][(\/ last'.name \in {"setEndpoint", "setTable", "setId", "setNamedQuery"}
      \/ last'.name \in Verbs /\ last'.arg # <<"null">>) =>
       requestConfig'.pageKey =
         (IF \/ StartsWith(requestConfig'.endpoint, TablePrefix)
             \/ StartsWith(requestConfig'.endpoint, QueryPrefix)
          THEN "record"
          ELSE LastSegment(requestConfig'.endpoint))]_vars

\* C30: setEndpoint(p) records a record id only when the last segment of
\* the normalized path is a numeral: otherwise, a path written with a
\* trailing slash included, no id is recorded and a table path gives its
\* last segment as the table.
NonNumericTailRecordsNoId ==
  [][last'.name = "setEndpoint" =>
       LET sanitized == sanitizeEndpoint(last'.arg)
       IN isNaN(Number(LastSegment(sanitized))) =>
            /\ requestConfig'.id = requestConfig.id
            /\ StartsWith(sanitized, TablePrefix) =>
                 requestConfig'.table = LastSegment(sanitized)]_vars

\* a step that sets the explicit params named keys and changes nothing
\* else: no other param, nor the body, the method or the endpoint
OnlyParamsSet(keys) ==
  /\ DOMAIN requestConfig'.params = DOMAIN requestConfig.params \cup keys
  /\ \A k \in DOMAIN requestConfig.params \ keys :
       requestConfig'.params[k] = requestConfig.params[k]
  /\ requestConfig'.data = requestConfig.data
  /\ requestConfig'.method = requestConfig.method
  /\ requestConfig'.endpoint = requestConfig.endpoint

\* the explicit param each one-key setter sets
SetterKey ==
  [page |-> "page", pageSize |-> "pagesize", projection |-> "projection",
   adHocOrder |-> "order", includeCount |-> "count",
   expansions |-> "expansions", extensions |-> "extensions"]

ProjectionOnlyIfSupplied(rc) ==
  LET built == buildParams(rc)
  IN "projection" \in DOMAIN built =>
       IF "projection" \in DOMAIN rc.params
       THEN built["projection"] = rc.params["projection"]
       ELSE /\ ToLowerCase(rc.method) = "get"
            /\ "projection" \in DOMAIN rc.data
            /\ built["projection"] = rc.data["projection"]

\* the built params have projection '*' unless the explicit params or, on
\* GET, the body give another
ProjectionStarUnlessSupplied(rc) ==
  LET built == buildParams(rc)
  IN /\ "projection" \in DOMAIN built
     /\ built["projection"] =
          (IF "projection" \in DOMAIN rc.params
           THEN rc.params["projection"]
           ELSE IF ToLowerCase(rc.method) = "get"
                   /\ "projection" \in DOMAIN rc.data
           THEN rc.data["projection"]
           ELSE <<"string", "*">>)

\* C24: right after excludeProjection() the built params have 'projection'
\* only if the body (on GET) or an explicit param supplies it, on a table
\* path too; right after includeProjection() they have projection '*'
\* unless the body (on GET) or an explicit param overrides it, off a table
\* path too.
ProjectionFlagOverrides ==
  [][/\ last'.name = "excludeProjection"
          => ProjectionOnlyIfSupplied(requestConfig')
     /\ last'.name = "includeProjection"
          => ProjectionStarUnlessSupplied(requestConfig')]_vars

\* C24 witness: excludeProjection has acted on the endpoint of a table and
\* the built params have no projection.
ProjectionExcludedOnTable ==
  /\ last.name = "excludeProjection"
  /\ requestConfig.endpoint = TablePath
  /\ requestConfig.table = "T"
  /\ "projection" \notin DOMAIN buildParams(requestConfig)

OneAttemptPerCall ==
  [][/\ last'.name \in {"send", "retrieveToken", "getDataSubscriptionChanges"} =>
          /\ Len(inflight') \in {Len(inflight), Len(inflight) + 1}
          /\ SubSeq(inflight', 1, Len(inflight)) = inflight
          /\ Len(inflight') = Len(inflight) + 1 =>
               /\ last'.outcome = "pending"
               /\ inflight'[Len(inflight')].kind =
                    (IF last'.name = "retrieveToken" THEN "token" ELSE "request")
          /\ Len(inflight') = Len(inflight) => last'.outcome # "pending"
     /\ last'.name \in {"sendSettled", "retrieveTokenSettled"} =>
          /\ \E i \in 1..Len(inflight) : inflight' = RemoveAt(inflight, i)
          /\ last'.outcome \in {"resolved", "rejected"}
     /\ last'.name = "sendSettled" =>
          last'.outcome = (IF last'.arg = <<"ok">> THEN "resolved" ELSE "rejected")
     /\ (last'.name = "retrieveTokenSettled" /\ last'.arg[2] = "fail") =>
          last'.outcome = "rejected"]_vars

\* C27 witness: the transport failed a send and the error has reached the
\* caller with nothing left in flight.
SendFailedOnce ==
  /\ last = Last("sendSettled", <<"fail">>, "rejected")
  /\ inflight = <<>>

\* C28: overlapping configure-then-send sequences on one builder are not
\* isolated: the request a caller's send dispatches is built from the
\* pending state all callers share, as it is when send is called, so a
\* caller's request can carry what another caller configured; it is the
\* request of the caller alone when no other caller has configured.
SendBuildsFromSharedState ==
  [][\A c \in Callers :
       (pc[c].at = "send" /\ pc'[c].at = "await") =>
         /\ Len(inflight') = Len(inflight) + 1
         /\ inflight'[Len(inflight')].caller = c
         /\ inflight'[Len(inflight')].config
              = getAxiosRequestConfig(requestConfig, token)
         /\ (\A d \in Callers \ {c} : pc[d].at = "configure") =>
              inflight'[Len(inflight')].config = Alone(pc[c].program)]_vars

\* C28 witness: caller A configured table T, caller B then configured the
\* named query, and the request A has in flight is the one for the query
\* with B's body, not the one A dispatches alone; B has not sent yet.
OtherCallersRequestDispatched ==
  /\ pc["A"] = At("await", "table")
  /\ pc["B"] = At("send", "query")
  /\ Len(inflight) = 1
  /\ inflight[1].caller = "A"
  /\ inflight[1].config # Alone("table")
  /\ inflight[1].config.url = QueryPrefix \o <<"/", "q">>
  /\ inflight[1].config.data = Body

\* C29 as stated: iterating a response yields each top-level value of the
\* body once, in the order the keys were inserted; a new iteration starts
\* from the first value; the body is never changed.
IteratesInInsertionOrder ==
  [][/\ call'.arg = call.arg
     /\ call'.fn = "iterator" => call'.result = <<>>
     /\ call'.fn = "yield" =>
          call'.result = Append(call.result, call.arg[Len(call.result) + 1][2])
     /\ call'.fn = "done" =>
          /\ call'.result = call.result
          /\ Len(call.result) = Len(call.arg)]_vars

\* key k1 comes before key k2 in the property order of an object
Before(body, k1, k2) ==
  LET at(k) == CHOOSE i \in 1..Len(body) : body[i][1] = k
  IN IF IsIndex(k1) /\ IsIndex(k2) THEN Number(k1) < Number(k2)
     ELSE IF IsIndex(k1) THEN TRUE
     ELSE IF IsIndex(k2) THEN FALSE
     ELSE at(k1) < at(k2)

\* the positions of the pairs of body, in property order
PropertyOrder(body) ==
  CHOOSE order \in [1..Len(body) -> 1..Len(body)] :
    \A i, j \in 1..Len(body) :
      i < j => Before(body, body[order[i]][1], body[order[j]][1])

\* C29 amended: iterating a response yields each top-level value of the
\* body once, in property order: the values of integer-like keys first,
\* ascending, then those of the other keys in the order they were
\* inserted; a new iteration starts from the first value; the body is
\* never changed.
IteratesInPropertyOrder ==
  [][/\ call'.arg = call.arg
     /\ call'.fn = "iterator" => call'.result = <<>>
     /\ call'.fn = "yield" =>
          call'.result =
            Append(call.result,
                   call.arg[PropertyOrder(call.arg)[Len(call.result) + 1]][2])
     /\ call'.fn = "done" =>
          /\ call'.result = call.result
          /\ Len(call.result) = Len(call.arg)]_vars

\* C29 witness: an iteration is done over a body whose key '1' was
\* inserted after the key 'name', and has yielded the value of '1' first.
IndexYieldedFirst ==
  /\ call.fn = "done"
  /\ Len(call.arg) = 2
  /\ call.arg[1] = <<"name", "x">>
  /\ call.arg[2] = <<"1", "y">>
  /\ call.result = <<"y", "x">>

\* the explicit params and the body items of rc are in the built request
StillBuilt(rc, built) ==
  /\ built.data = rc.data
  /\ \A k \in DOMAIN rc.params :
       k \in DOMAIN built.params /\ built.params[k] = rc.params[k]

\* C31: setEndpoint, setTable and setId leave the method, the body, the
\* explicit params and the token as they are, so that the params and the
\* body items set before them are in the request built afterwards.
EndpointStepsKeepParamsAndBody ==
  [][last'.name \in {"setEndpoint", "setTable", "setId"}
       => /\ requestConfig'.method = requestConfig.method
          /\ requestConfig'.data = requestConfig.data
          /\ requestConfig'.params = requestConfig.params
          /\ token' = token
          /\ StillBuilt(requestConfig,
                        getAxiosRequestConfig(requestConfig', token'))]_vars

\* C31 witness: setId has run on a builder that holds a token and has a
\* POST request with a body item and an explicit param.
IdSetAfterParamsAndBody ==
  /\ last.name = "setId"
  /\ tokenSet(token)
  /\ requestConfig.method = "post"
  /\ requestConfig.data # EmptyObject
  /\ requestConfig.params # EmptyObject

\* C35: setNamedQuery(name) with no body, or with a body that has no
\* entries, leaves the body and the explicit params set before it (and the
\* token) as they are.
NamedQueryWithoutBodyKeepsBody ==
  [][\A name \in Names :
       (last'.name = "setNamedQuery"
          /\ SetNamedQuery(name, EmptyObject))
         => /\ requestConfig'.data = requestConfig.data
            /\ requestConfig'.params = requestConfig.params
            /\ token' = token]_vars

\* C35 witness: setNamedQuery has run and the request still has the body
\* set earlier, which no body argument of setNamedQuery here equals, and
\* an explicit param.
NamedQuerySetAfterBody ==
  /\ last.name = "setNamedQuery"
  /\ requestConfig.data = [projection |-> String("f1")]
  /\ requestConfig.params # EmptyObject
  /\ requestConfig.method = "post"
  /\ requestConfig.pageKey = "record"

\* C32: an explicit excludeProjection() or includeProjection() is still in
\* effect after the setId, the setEndpoint or the get, post, put, patch or
\* delete with an endpoint that follows it on the same request.
ExplicitProjectionKept ==
  [][(/\ last.name \in {"excludeProjection", "includeProjection"}
      /\ \/ last'.name \in {"setId", "setEndpoint"}
         \/ last'.name \in Verbs /\ last'.arg # <<"null">>)
       => requestConfig'.includeProjection =
            requestConfig.includeProjection]_vars

\* C33: once a token is held, tokenSet() is true after every step, the
\* settling of a forced retrieveToken whose exchange fails or answers
\* without access_token included.
TokenStaysSet ==
  [][tokenSet(token) => tokenSet(token')]_vars

====
